---- MODULE Spec2Model ----
(***************************************************************************)
(* Model of FlashbotsMEVExecutor (src/FlashbotsMEVExecutor.ts) together    *)
(* with the process bootstrap `main` and the process-level fatal handlers  *)
(* (src/unnamed/part_000).  The source file holds two successive versions  *)
(* of the class; the model follows the later one (lines 229-390), whose    *)
(* handler, executeFlashLoan and periodicResync have the same control flow *)
(* as the earlier one.                                                     *)
(*                                                                         *)
(* Every `await` of the source is an interleaving point: an action of the  *)
(* model is the synchronous code that runs when the awaited call returns,  *)
(* up to the next await.  The external collaborators (chain RPC, relay,    *)
(* wallet) are the environment: every call may return any of the outcomes  *)
(* its interface allows, or throw.                                         *)
(*                                                                         *)
(* Amounts: the source computes in wei (parseEther("1") = 10^18) with      *)
(* arbitrary-precision BigNumber.  The model keeps the same arithmetic     *)
(* with parseEther("1") = WEI_PER_ETHER = 100, so that all values fit      *)
(* TLC's integers.  Scores (floats in [0,1]) are held in thousandths.      *)
(*                                                                         *)
(* A handler's locals are kept only as long as a later line of the source  *)
(* reads them, and are dropped when the handler returns or the process     *)
(* exits.  What the relay was asked and what it answered is kept in        *)
(* sendCalls, simulationResult and sendResult.                             *)
(***************************************************************************)
EXTENDS Integers, Sequences, FiniteSets, Bags, TLC

\* ---------------------------------------------------------------- bounds
MaxHashes == 2          \* pending hashes delivered by the subscription
MaxBlock == 1           \* cap on the chain's block number
MaxTicks == 1           \* cap on health-check ticks
MaxFairHashes == 1      \* pending hashes delivered in the runs of FairSpec

Hashes == 1..MaxHashes

\* ------------------------------------------------------ program constants
WEI_PER_ETHER == 100
MAX_LOAN_AMOUNT_ETH == 100000
AI_THRESHOLD == 850
GAS_LIMIT == 3000000
LOAN_MULTIPLIER == 10
undefined == -1

parseEther(eth) == eth * WEI_PER_ETHER

\* parseEther("0.05")
MIN_PROFIT_THRESHOLD == (5 * WEI_PER_ETHER) \div 100

MAX_LOAN_WEI == parseEther(MAX_LOAN_AMOUNT_ETH)

\* reserves (reserve0, reserve1) the two venues can report: between them
\* the analysis throws, finds nothing, finds a profit of 1 ether and finds
\* a profit of 20000 ether
ReservesA == { <<0, 1>>, <<1, 1>>, <<20000, 1>>, <<1, 0>> }

ReservesB == { <<0, 1>>, <<1, 0>> }

\* tx.data values that pass the test !tx.data: "0x" (a transaction without
\* call data, as the JSON-RPC encodes it) and a non-empty payload
TruthyData == { "0x", "0xpayload" }

\* Math.random() * 0.4 + 0.6, in thousandths: values of [600, 1000)
Scores == { 850, 851 }

VARIABLES
    mainPc,             \* position of main(): bootstrap, monitoring, exited
    flashbotsProvider,  \* TRUE once FlashbotsBundleProvider.create returned
    nonce,              \* this.nonce (undefined before initialize sets it)
    chainCount,         \* what getTransactionCount(wallet) reports now
    blockNumber,        \* what getBlockNumber() reports now
    pc,                 \* per pending hash: the await its handler is at
    tx,                 \* per hash: data of the tx given to analyzeOpportunity
    opp,                \* per hash: result of analyzeOpportunity
    loanAmount,         \* per hash: loanAmount given to populateTransaction
    bundleRequest,      \* per hash: the transactions given to signBundle
    signedTransactions, \* per hash: the signed bundle
    targetBlock,        \* per hash: targetBlock local of executeFlashLoan
    simulationResult,   \* per hash: what simulate returned ("none" before)
    sendResult,         \* per hash: what sendBundle returned ("none" before)
    sendCalls,          \* log of sendBundle calls: bag of the nonces carried
    healthCheckCount,   \* healthCheckCount of startMonitoring
    resyncInFlight,     \* periodicResync calls awaiting getTransactionCount
    lastResync,         \* how the last periodicResync found the chain count
    resyncRaised,       \* sum of the raises periodicResync made
    initialNonce,       \* value initialize gave to this.nonce
    wssErrorLogged,     \* a transport error event was logged
    fatal               \* why the process exited ("none" while it runs)

vars == << mainPc, flashbotsProvider, nonce, chainCount, blockNumber, pc, tx, opp,
           loanAmount, bundleRequest, signedTransactions, targetBlock,
           simulationResult, sendResult, sendCalls, healthCheckCount,
           resyncInFlight, lastResync, resyncRaised, initialNonce, wssErrorLogged,
           fatal >>

handlerVars == << pc, tx, opp, loanAmount, bundleRequest, signedTransactions,
                  targetBlock, simulationResult, sendResult, sendCalls >>

monitorVars == << healthCheckCount, resyncInFlight, lastResync, resyncRaised,
                  wssErrorLogged >>

NoOpportunity == [isProfitable |-> FALSE, estimatedProfit |-> 0, aiScore |-> 0]

Init ==
    /\ mainPc = "apiServer.start"
    /\ flashbotsProvider = FALSE
    /\ nonce = undefined
    /\ chainCount = 0
    /\ blockNumber = 0
    /\ pc = [h \in Hashes |-> "idle"]
    /\ tx = [h \in Hashes |-> "none"]
    /\ opp = [h \in Hashes |-> NoOpportunity]
    /\ loanAmount = [h \in Hashes |-> 0]
    /\ bundleRequest = [h \in Hashes |-> << >>]
    /\ signedTransactions = [h \in Hashes |-> << >>]
    /\ targetBlock = [h \in Hashes |-> 0]
    /\ simulationResult = [h \in Hashes |-> "none"]
    /\ sendResult = [h \in Hashes |-> "none"]
    /\ sendCalls = EmptyBag
    /\ healthCheckCount = 0
    /\ resyncInFlight = 0
    /\ lastResync = "none"
    /\ resyncRaised = 0
    /\ initialNonce = undefined
    /\ wssErrorLogged = FALSE
    /\ fatal = "none"

\* ------------------------------------------------------------ environment
\* A block is mined: the block number grows by one, and the wallet's
\* transaction count grows when the block includes a transaction of the
\* wallet (an own bundle, or a transaction another process sent from the
\* same account).  Several such transactions in one block are, for all the
\* executor reads, several such blocks.
NewBlock ==
    /\ blockNumber < MaxBlock
    /\ blockNumber' = blockNumber + 1
    /\ \E walletTxMined \in BOOLEAN :
         chainCount' = chainCount + (IF walletTxMined THEN 1 ELSE 0)
    /\ UNCHANGED << mainPc, flashbotsProvider, nonce,
                    handlerVars, monitorVars, initialNonce, fatal >>

\* --------------------------------------------------------- process exit
\* process.exit(1): from main's catch ("startup"), or from the
\* unhandledRejection handler when a promise nobody awaits rejects (cause:
\* the call that threw).  Every running handler and pending resync dies
\* with the process.
ExitLogsOnly(cause) ==
    /\ fatal' = cause
    /\ UNCHANGED << mainPc, flashbotsProvider, nonce, chainCount, blockNumber,
                    handlerVars, monitorVars, initialNonce >>

Exit(cause) ==
    /\ mainPc' = "exited"
    /\ fatal' = cause
    /\ pc' = [h \in Hashes |-> IF pc[h] = "idle" THEN "idle" ELSE "dead"]
    /\ tx' = [h \in Hashes |-> "none"]
    /\ opp' = [h \in Hashes |-> NoOpportunity]
    /\ loanAmount' = [h \in Hashes |-> 0]
    /\ bundleRequest' = [h \in Hashes |-> << >>]
    /\ signedTransactions' = [h \in Hashes |-> << >>]
    /\ targetBlock' = [h \in Hashes |-> 0]
    /\ resyncInFlight' = 0
    /\ UNCHANGED << flashbotsProvider, nonce, chainCount, blockNumber,
                    simulationResult, sendResult, sendCalls, healthCheckCount,
                    lastResync, resyncRaised, initialNonce, wssErrorLogged >>

Running == mainPc = "monitoring"

\* ------------------------------------------------------------- bootstrap
\* main: await apiServer.start()
ApiServerStart ==
    /\ mainPc = "apiServer.start"
    /\ \/ /\ mainPc' = "initialize.getBlockNumber"
          /\ UNCHANGED << flashbotsProvider, nonce, chainCount, blockNumber,
                          handlerVars, monitorVars, initialNonce, fatal >>
       \/ Exit("startup")

\* initialize: await this.provider.getBlockNumber()
InitializeRpcCheck ==
    /\ mainPc = "initialize.getBlockNumber"
    /\ \/ /\ mainPc' = "initialize.create"
          /\ UNCHANGED << flashbotsProvider, nonce, chainCount, blockNumber,
                          handlerVars, monitorVars, initialNonce, fatal >>
       \/ Exit("startup")

\* initialize: this.flashbotsProvider = await FlashbotsBundleProvider.create
InitializeCreate ==
    /\ mainPc = "initialize.create"
    /\ \/ /\ mainPc' = "initialize.getTransactionCount"
          /\ flashbotsProvider' = TRUE
          /\ UNCHANGED << nonce, chainCount, blockNumber, handlerVars,
                          monitorVars, initialNonce, fatal >>
       \/ Exit("startup")

\* initialize: this.nonce = await this.provider.getTransactionCount(...)
InitializeNonceSwallowsFailure ==
    /\ mainPc = "initialize.getTransactionCount"
    /\ mainPc' = "startMonitoring"
    /\ \E fetched \in BOOLEAN :
         /\ nonce' = IF fetched THEN chainCount ELSE nonce
         /\ initialNonce' = IF fetched THEN chainCount ELSE initialNonce
    /\ UNCHANGED << flashbotsProvider, chainCount, blockNumber,
                    handlerVars, monitorVars, fatal >>

InitializeNonce ==
    /\ mainPc = "initialize.getTransactionCount"
    /\ \/ /\ mainPc' = "startMonitoring"
          /\ nonce' = chainCount
          /\ initialNonce' = chainCount
          /\ UNCHANGED << flashbotsProvider, chainCount, blockNumber,
                          handlerVars, monitorVars, fatal >>
       \/ Exit("startup")

\* startMonitoring: registers the 'pending' and 'error' listeners and the
\* health-check interval, or throws when the relay session is missing
StartMonitoring ==
    /\ mainPc = "startMonitoring"
    /\ IF flashbotsProvider
       THEN /\ mainPc' = "monitoring"
            /\ UNCHANGED << flashbotsProvider, nonce, chainCount, blockNumber,
                            handlerVars, monitorVars, initialNonce, fatal >>
       ELSE Exit("startup")

\* ------------------------------------------------------ pure computations
Abs(x) == IF x < 0 THEN -x ELSE x

\* BigNumber.div throws on a zero divisor
PriceThrows(reserves) == reserves[2] = 0

\* reserves[0].mul(parseEther("1")).div(reserves[1])
Price(reserves) == (reserves[1] * parseEther(1)) \div reserves[2]

\* analyzeOpportunity after both getReserves calls returned; aiScore is the
\* value the Math.random() placeholder yields when it is drawn.
analyzeOpportunity(reservesA, reservesB, aiScore) ==
    LET priceA == Price(reservesA)
        priceB == Price(reservesB)
        difference == Abs(priceA - priceB)
        potentialProfit == (difference \div 100) * parseEther(1)
    IN  IF /\ difference > priceA \div 100
           /\ potentialProfit > MIN_PROFIT_THRESHOLD
        THEN [isProfitable |-> TRUE, estimatedProfit |-> potentialProfit,
              aiScore |-> aiScore]
        ELSE NoOpportunity

\* the gate of the 'pending' handler: if (aiScore > AI_THRESHOLD)
PassesAIFilterLoose(aiScore) == aiScore >= AI_THRESHOLD

PassesAIFilter(aiScore) == aiScore > AI_THRESHOLD

\* the loan sizing of executeFlashLoan
LoanAmountUncapped(estimatedProfit) == estimatedProfit * LOAN_MULTIPLIER

LoanAmount(estimatedProfit) ==
    LET loan == estimatedProfit * LOAN_MULTIPLIER
    IN  IF loan > MAX_LOAN_WEI THEN MAX_LOAN_WEI ELSE loan

\* if (simulationResult.error) ... return
SimulationRejectsNever(result) == FALSE

SimulationRejects(result) == result = "error"

\* the condition of periodicResync under which this.nonce is overwritten
ResyncOverwritesNever(newNonce, tracked) == tracked = undefined

ResyncOverwritesAlways(newNonce, tracked) == newNonce # tracked

ResyncOverwrites(newNonce, tracked) ==
    tracked = undefined \/ newNonce > tracked

\* ------------------------------------------------- the 'pending' handler
\* wssProvider emits 'pending' with a hash: the handler starts and awaits
\* getTransaction.
Pending(h) ==
    /\ Running
    /\ pc[h] = "idle"
    /\ \A g \in Hashes : g < h => pc[g] # "idle"
    /\ pc' = [pc EXCEPT ![h] = "getTransaction"]
    /\ UNCHANGED << mainPc, flashbotsProvider, nonce, chainCount, blockNumber,
                    tx, opp, loanAmount, bundleRequest, signedTransactions,
                    targetBlock, simulationResult, sendResult, sendCalls,
                    monitorVars, initialNonce, fatal >>

\* the handler of h returns: its locals are gone; lastOpp is what stays
\* visible of its opportunity (the log line of the AI filter)
ReturnRequeues(h, lastOpp) ==
    /\ pc' = [pc EXCEPT ![h] = "idle"]
    /\ tx' = [tx EXCEPT ![h] = "none"]
    /\ opp' = [opp EXCEPT ![h] = lastOpp]
    /\ loanAmount' = [loanAmount EXCEPT ![h] = 0]
    /\ bundleRequest' = [bundleRequest EXCEPT ![h] = << >>]
    /\ signedTransactions' = [signedTransactions EXCEPT ![h] = << >>]
    /\ targetBlock' = [targetBlock EXCEPT ![h] = 0]

Return(h, lastOpp) ==
    /\ pc' = [pc EXCEPT ![h] = "done"]
    /\ tx' = [tx EXCEPT ![h] = "none"]
    /\ opp' = [opp EXCEPT ![h] = lastOpp]
    /\ loanAmount' = [loanAmount EXCEPT ![h] = 0]
    /\ bundleRequest' = [bundleRequest EXCEPT ![h] = << >>]
    /\ signedTransactions' = [signedTransactions EXCEPT ![h] = << >>]
    /\ targetBlock' = [targetBlock EXCEPT ![h] = 0]

\* getTransaction returned.  if (!tx || !tx.data) return: a null response and
\* a response whose data is missing (or the empty string) end the handler.
\* Every other data is a non-empty string and so truthy, the "0x" of a
\* transaction without call data included: analyzeOpportunity(tx) starts
\* and awaits both getReserves calls.
GetTransactionReturn(h) ==
    /\ Running
    /\ pc[h] = "getTransaction"
    /\ \/ /\ \E data \in TruthyData : tx' = [tx EXCEPT ![h] = data]
          /\ pc' = [pc EXCEPT ![h] = "getReserves"]
          /\ UNCHANGED << mainPc, flashbotsProvider, nonce, chainCount,
                          blockNumber, opp, loanAmount, bundleRequest,
                          signedTransactions, targetBlock, simulationResult,
                          sendResult, sendCalls, monitorVars, initialNonce,
                          fatal >>
       \/ /\ \E outcome \in { "null", "data undefined" } :
                Return(h, NoOpportunity)
          /\ UNCHANGED << mainPc, flashbotsProvider, nonce, chainCount,
                          blockNumber, simulationResult, sendResult,
                          sendCalls, monitorVars, initialNonce, fatal >>
       \/ Exit("getTransaction")

\* Promise.all([getReserves, getReserves]) rejected: the catch of
\* analyzeOpportunity returns "not profitable", the handler returns.
GetReservesFail(h) ==
    /\ Running
    /\ pc[h] = "getReserves"
    /\ Return(h, NoOpportunity)
    /\ UNCHANGED << mainPc, flashbotsProvider, nonce, chainCount, blockNumber,
                    simulationResult, sendResult, sendCalls, monitorVars,
                    initialNonce, fatal >>

\* Both getReserves calls returned.  The price computation runs outside the
\* try block: a zero reserve1 makes BigNumber.div throw and the handler's
\* promise rejects.  Otherwise the handler applies its two gates and, when
\* both pass, enters executeFlashLoan, which checks that the executor is
\* ready, sizes the loan and awaits populateTransaction.
GetReservesReturn(h) ==
    /\ Running
    /\ pc[h] = "getReserves"
    /\ \E reservesA \in ReservesA, reservesB \in ReservesB, aiScore \in Scores :
         IF PriceThrows(reservesA) \/ PriceThrows(reservesB)
         THEN Exit("analyzeOpportunity")
         ELSE LET o == analyzeOpportunity(reservesA, reservesB, aiScore)
              IN  IF o.isProfitable /\ PassesAIFilter(o.aiScore)
                  THEN IF ~flashbotsProvider \/ nonce = undefined
                       THEN Exit("executeFlashLoan")
                       ELSE /\ tx' = [tx EXCEPT ![h] = "none"]
                            /\ opp' = [opp EXCEPT ![h] = o]
                            /\ loanAmount' = [loanAmount EXCEPT
                                  ![h] = LoanAmount(o.estimatedProfit)]
                            /\ pc' = [pc EXCEPT ![h] = "populateTransaction"]
                            /\ UNCHANGED << mainPc, flashbotsProvider, nonce,
                                  chainCount, blockNumber, bundleRequest,
                                  signedTransactions, targetBlock,
                                  simulationResult, sendResult, sendCalls,
                                  monitorVars, initialNonce, fatal >>
                  ELSE /\ Return(h, o)
                       /\ UNCHANGED << mainPc, flashbotsProvider, nonce,
                             chainCount, blockNumber, simulationResult,
                             sendResult, sendCalls, monitorVars, initialNonce,
                             fatal >>

\* populateTransaction returned flashLoanTx: signBundle is called with one
\* transaction, { ...flashLoanTx, nonce: this.nonce, gasLimit: 3000000 },
\* this.nonce being read now.
PopulateTransactionReturnStaleNonce(h) ==
    /\ Running
    /\ pc[h] = "populateTransaction"
    /\ bundleRequest' = [bundleRequest EXCEPT
          ![h] = << [nonce |-> initialNonce, gasLimit |-> GAS_LIMIT] >>]
    /\ opp' = [opp EXCEPT ![h] = NoOpportunity]
    /\ loanAmount' = [loanAmount EXCEPT ![h] = 0]
    /\ pc' = [pc EXCEPT ![h] = "signBundle"]
    /\ UNCHANGED << tx, mainPc, flashbotsProvider, nonce, chainCount,
                    blockNumber, signedTransactions, targetBlock,
                    simulationResult, sendResult, sendCalls,
                    monitorVars, initialNonce, fatal >>

PopulateTransactionReturn(h) ==
    /\ Running
    /\ pc[h] = "populateTransaction"
    /\ \/ /\ bundleRequest' = [bundleRequest EXCEPT
                ![h] = << [nonce |-> nonce, gasLimit |-> GAS_LIMIT] >>]
          /\ opp' = [opp EXCEPT ![h] = NoOpportunity]
          /\ loanAmount' = [loanAmount EXCEPT ![h] = 0]
          /\ pc' = [pc EXCEPT ![h] = "signBundle"]
          /\ UNCHANGED << tx, mainPc, flashbotsProvider, nonce, chainCount,
                          blockNumber, signedTransactions, targetBlock,
                          simulationResult, sendResult, sendCalls,
                          monitorVars, initialNonce, fatal >>
       \/ Exit("populateTransaction")

\* signBundle returned the signed bundle: getBlockNumber is awaited.
SignBundleReturn(h) ==
    /\ Running
    /\ pc[h] = "signBundle"
    /\ \/ /\ signedTransactions' = [signedTransactions EXCEPT
                                       ![h] = bundleRequest[h]]
          /\ bundleRequest' = [bundleRequest EXCEPT ![h] = << >>]
          /\ pc' = [pc EXCEPT ![h] = "getBlockNumber"]
          /\ UNCHANGED << tx, mainPc, flashbotsProvider, nonce, chainCount,
                          blockNumber, opp, loanAmount, targetBlock,
                          simulationResult, sendResult, sendCalls,
                          monitorVars, initialNonce, fatal >>
       \/ Exit("signBundle")

\* getBlockNumber returned: targetBlock is set and simulate is called with
\* the signed bundle and targetBlock.
GetBlockNumberReturnCurrentBlock(h) ==
    /\ Running
    /\ pc[h] = "getBlockNumber"
    /\ targetBlock' = [targetBlock EXCEPT ![h] = blockNumber]
    /\ pc' = [pc EXCEPT ![h] = "simulate"]
    /\ UNCHANGED << tx, mainPc, flashbotsProvider, nonce, chainCount,
                    blockNumber, opp, loanAmount, bundleRequest,
                    signedTransactions, simulationResult, sendResult,
                    sendCalls, monitorVars, initialNonce, fatal >>

GetBlockNumberReturn(h) ==
    /\ Running
    /\ pc[h] = "getBlockNumber"
    /\ \/ /\ targetBlock' = [targetBlock EXCEPT ![h] = blockNumber + 1]
          /\ pc' = [pc EXCEPT ![h] = "simulate"]
          /\ UNCHANGED << tx, mainPc, flashbotsProvider, nonce, chainCount,
                          blockNumber, opp, loanAmount, bundleRequest,
                          signedTransactions, simulationResult, sendResult,
                          sendCalls, monitorVars, initialNonce, fatal >>
       \/ Exit("getBlockNumber")

\* simulate returned: a result carrying an error is logged and the handler
\* returns; otherwise sendBundle is called with the same bundle and block.
SimulateReturn(h) ==
    /\ Running
    /\ pc[h] = "simulate"
    /\ \/ \E result \in {"ok", "error"} :
            /\ simulationResult' = [simulationResult EXCEPT ![h] = result]
            /\ IF SimulationRejects(result)
               THEN /\ Return(h, NoOpportunity)
                    /\ UNCHANGED sendCalls
               ELSE /\ sendCalls' = sendCalls (+)
                          SetToBag({ signedTransactions[h][1].nonce })
                    /\ pc' = [pc EXCEPT ![h] = "sendBundle"]
                    /\ UNCHANGED << tx, opp, loanAmount, bundleRequest,
                                    signedTransactions, targetBlock >>
            /\ UNCHANGED << mainPc, flashbotsProvider, nonce, chainCount,
                            blockNumber, sendResult, monitorVars,
                            initialNonce, fatal >>
       \/ Exit("simulate")

\* sendBundle returned.  The relay client resolves both for an accepted
\* bundle ("ack") and for a relay error response ("error"); the code does
\* not look at the result and runs this.nonce++ in both cases.
SendBundleReturn(h) ==
    /\ Running
    /\ pc[h] = "sendBundle"
    /\ \/ \E result \in {"ack", "error"} :
            /\ sendResult' = [sendResult EXCEPT ![h] = result]
            /\ nonce' = nonce + 1
            /\ Return(h, NoOpportunity)
            /\ UNCHANGED << mainPc, flashbotsProvider, chainCount,
                            blockNumber, simulationResult, sendCalls,
                            monitorVars, initialNonce, fatal >>
       \/ Exit("sendBundle")

\* ------------------------------------------------- monitor housekeeping
\* the 'error' listener of wssProvider: console.error only
WssErrorTerminates ==
    /\ Running
    /\ wssErrorLogged' = TRUE
    /\ mainPc' = "exited"
    /\ fatal' = "wssProvider error"
    /\ pc' = [h \in Hashes |-> IF pc[h] = "idle" THEN "idle" ELSE "dead"]
    /\ resyncInFlight' = 0
    /\ UNCHANGED << flashbotsProvider, nonce, chainCount, blockNumber, tx,
                    opp, loanAmount, bundleRequest, signedTransactions,
                    targetBlock, simulationResult, sendResult, sendCalls,
                    healthCheckCount, lastResync, resyncRaised, initialNonce >>

WssError ==
    /\ Running
    /\ wssErrorLogged' = TRUE
    /\ UNCHANGED << mainPc, flashbotsProvider, nonce, chainCount, blockNumber,
                    handlerVars, healthCheckCount, resyncInFlight, lastResync,
                    resyncRaised, initialNonce, fatal >>

\* the setInterval callback: count, log, call periodicResync (not awaited),
\* which awaits getTransactionCount
HealthTickNoResync ==
    /\ Running
    /\ healthCheckCount < MaxTicks
    /\ healthCheckCount' = healthCheckCount + 1
    /\ UNCHANGED << mainPc, flashbotsProvider, nonce, chainCount, blockNumber,
                    handlerVars, resyncInFlight, lastResync, resyncRaised,
                    wssErrorLogged, initialNonce, fatal >>

HealthTick ==
    /\ Running
    /\ healthCheckCount < MaxTicks
    /\ healthCheckCount' = healthCheckCount + 1
    /\ resyncInFlight' = resyncInFlight + 1
    /\ UNCHANGED << mainPc, flashbotsProvider, nonce, chainCount, blockNumber,
                    handlerVars, lastResync, resyncRaised, wssErrorLogged,
                    initialNonce, fatal >>

\* getTransactionCount returned inside periodicResync
periodicResync ==
    /\ Running
    /\ resyncInFlight > 0
    /\ \/ LET newNonce == chainCount
              after == IF ResyncOverwrites(newNonce, nonce)
                       THEN newNonce ELSE nonce
          IN  /\ nonce' = after
              /\ resyncInFlight' = resyncInFlight - 1
              /\ lastResync' = CASE newNonce > nonce -> "raised"
                                  [] newNonce = nonce -> "equal"
                                  [] OTHER -> "lower"
              /\ resyncRaised' = resyncRaised + (after - nonce)
              /\ UNCHANGED << mainPc, flashbotsProvider, chainCount,
                              blockNumber, handlerVars, healthCheckCount,
                              wssErrorLogged, initialNonce, fatal >>
       \/ Exit("periodicResync")

Next ==
    \/ NewBlock
    \/ ApiServerStart
    \/ InitializeRpcCheck
    \/ InitializeCreate
    \/ InitializeNonce
    \/ StartMonitoring
    \/ \E h \in Hashes : Pending(h)
    \/ \E h \in Hashes : GetTransactionReturn(h)
    \/ \E h \in Hashes : GetReservesFail(h)
    \/ \E h \in Hashes : GetReservesReturn(h)
    \/ \E h \in Hashes : PopulateTransactionReturn(h)
    \/ \E h \in Hashes : SignBundleReturn(h)
    \/ \E h \in Hashes : GetBlockNumberReturn(h)
    \/ \E h \in Hashes : SimulateReturn(h)
    \/ \E h \in Hashes : SendBundleReturn(h)
    \/ WssError
    \/ HealthTick
    \/ periodicResync

Spec == Init /\ [][Next]_vars

\* The interval timer fires as long as the process runs, and a chain query
\* that was sent gets its answer: the scheduling under which the resync
\* makes progress.  Nothing is assumed of the handlers or of the chain.
\* The subscription delivers MaxFairHashes hashes in these runs.
FairNext ==
    /\ Next
    /\ \A h \in Hashes : h > MaxFairHashes => pc'[h] = "idle"

FairSpec ==
    /\ Init
    /\ [][FairNext]_vars
    /\ WF_vars(HealthTick)
    /\ WF_vars(periodicResync /\ mainPc' = "monitoring")

\* ------------------------------------------------------------ vocabulary
\* pcs at which an executeFlashLoan invocation holds a nonce it has read
\* (signBundle called) and has neither run this.nonce++ nor returned
InFlightPcs == { "signBundle", "getBlockNumber", "simulate", "sendBundle" }

InFlight == { h \in Hashes : pc[h] \in InFlightPcs }

\* handlers holding a signed bundle
Signed == { h \in Hashes : signedTransactions[h] # << >> }

\* handlers whose sendBundle call was made
SentHashes == { h \in Hashes : pc[h] = "sendBundle" \/ sendResult[h] # "none" }

Acked == { h \in Hashes : sendResult[h] = "ack" }

Min(a, b) == IF a < b THEN a ELSE b

Max(a, b) == IF a > b THEN a ELSE b

\* the highest nonce carried by a bundle given to sendBundle (undefined
\* when sendBundle was never called)
HighestSubmittedNonce ==
    IF sendCalls = EmptyBag
    THEN undefined
    ELSE CHOOSE n \in BagToSet(sendCalls) :
            \A m \in BagToSet(sendCalls) : m <= n

\* the order in which a handler passes its awaits: 'pending' handler, then
\* analyzeOpportunity, then executeFlashLoan; a handler that returned is
\* "done", and every started handler is "dead" once the process exited
Rank(at) ==
    CASE at = "idle" -> 0
      [] at = "getTransaction" -> 1
      [] at = "getReserves" -> 2
      [] at = "populateTransaction" -> 3
      [] at = "signBundle" -> 4
      [] at = "getBlockNumber" -> 5
      [] at = "simulate" -> 6
      [] at = "sendBundle" -> 7
      [] at = "done" -> 8
      [] at = "dead" -> 9

\* ------------------------------------------------------------------ claims

\* C1: no two bundles signed by executeFlashLoan carry the same nonce,
\* whatever the interleaving of handlers and resync ticks.
C1_NoTwoSignedBundlesShareNonce ==
    \A h1 \in Signed, h2 \in Signed :
        h1 # h2 =>
            signedTransactions[h1][1].nonce # signedTransactions[h2][1].nonce

\* C2: sendBundle is never called for two bundles that carry the same
\* nonce: a second build based on N is rejected or rebuilt once the first
\* was submitted.
C2_NoDualSubmissionAtSameNonce ==
    \A n \in BagToSet(sendCalls) : CopiesIn(n, sendCalls) <= 1

\* C3: at any instant at most one executeFlashLoan invocation is in flight
\* (nonce read for its bundle, not yet incremented, not yet rejected).
C3_AtMostOneInFlight == Cardinality(InFlight) <= 1

\* C4: at every call of sendBundle the nonce carried by the bundle equals
\* the tracked nonce at that moment.
C4_NoStaleNonceAtSubmission ==
    [][ \A h \in Hashes :
          (pc[h] = "simulate" /\ pc'[h] = "sendBundle")
              => signedTransactions[h][1].nonce = nonce ]_vars

\* C5: once initialized, the tracked nonce never decreases from one state to
\* the next (and never becomes undefined again).
C5_NonceNeverDecreases ==
    [][ nonce # undefined => (nonce' # undefined /\ nonce' >= nonce) ]_vars

\* C5 witness: the nonce was advanced by a submission and a resync then
\* returned a chain count below the tracked value.
C5_Witness ==
    /\ lastResync = "lower"
    /\ nonce > chainCount
    /\ \E h \in Hashes : sendResult[h] # "none"

\* C6: an executeFlashLoan invocation changes the tracked nonce by +1 when
\* its bundle was successfully submitted and by 0 otherwise, and apart from
\* resync raises the tracked nonce minus its initial value is the number of
\* successfully submitted bundles.
C6_NonceCountsSuccessfulSubmissions ==
    [][ /\ \A h \in Hashes :
             (pc[h] \in InFlightPcs \cup {"populateTransaction"}
                 /\ pc'[h] \in {"done", "dead"})
                 => nonce' - nonce = IF sendResult'[h] = "ack" THEN 1 ELSE 0
        /\ nonce' # undefined
             => nonce' - initialNonce' - resyncRaised' = Cardinality(Acked')
      ]_vars

\* C7: a simulation result carrying an error ends the attempt without a
\* sendBundle call, without a nonce change and without the fatal path, the
\* monitor keeps running; and every sendBundle call follows a simulate of
\* the same bundle that returned without error.
C7_SimulationGate ==
    [][ /\ \A h \in Hashes :
             (pc[h] = "simulate" /\ simulationResult'[h] = "error")
                 => /\ pc'[h] = "done"
                    /\ sendCalls' = sendCalls
                    /\ nonce' = nonce
                    /\ mainPc' = "monitoring"
                    /\ fatal' = "none"
        /\ \A h \in Hashes :
             simulationResult'[h] = "error"
                 => (h \notin SentHashes' /\ sendResult'[h] = "none")
        /\ \A h \in SentHashes' : simulationResult'[h] = "ok"
        /\ sendCalls' # sendCalls
             => \E h \in Hashes :
                   /\ pc[h] = "simulate"
                   /\ simulationResult'[h] = "ok"
                   /\ sendCalls' = sendCalls (+)
                         SetToBag({ signedTransactions[h][1].nonce })
      ]_vars

\* C7 witness: one attempt was rejected by simulation, and the monitor went
\* on and submitted another hash's bundle.
C7_Witness ==
    /\ Running
    /\ \E h \in Hashes, g \in Hashes :
         /\ simulationResult[h] = "error"
         /\ pc[h] = "done"
         /\ h \notin SentHashes
         /\ g \in SentHashes
         /\ simulationResult[g] = "ok"

\* C8: the tracked nonce is not advanced when sendBundle yields an error
\* outcome (error response or thrown failure) instead of an ack.
C8_NoAdvanceOnSubmitError ==
    [][ \A h \in Hashes :
          (pc[h] = "sendBundle" /\ pc'[h] # "sendBundle"
              /\ sendResult'[h] # "ack")
              => nonce' = nonce ]_vars

\* C9: executeFlashLoan is entered only for an opportunity with
\* isProfitable and a score strictly above 0.85 (850 is rejected, 851 is
\* accepted); a rejected opportunity causes no signing, simulation or
\* submission and no nonce change.
C9_ConfidenceGate ==
    [][ /\ \A h \in Hashes :
             (pc[h] = "getReserves" /\ pc'[h] = "populateTransaction")
                 => (opp'[h].isProfitable /\ opp'[h].aiScore > 850)
        /\ \A h \in Hashes :
             (pc[h] = "getReserves" /\ pc'[h] = "done")
                 => /\ ~ (opp'[h].isProfitable /\ opp'[h].aiScore > 850)
                    /\ nonce' = nonce
                    /\ sendCalls' = sendCalls
                    /\ bundleRequest' = bundleRequest
                    /\ signedTransactions' = signedTransactions
                    /\ simulationResult' = simulationResult
                    /\ sendResult' = sendResult
        /\ \A h \in Hashes :
             (pc'[h] = "done" /\ opp'[h].isProfitable)
                 => /\ opp'[h].aiScore <= 850
                    /\ simulationResult'[h] = "none"
                    /\ sendResult'[h] = "none"
                    /\ h \notin SentHashes'
      ]_vars

\* C9 witness: a profitable opportunity scored exactly 0.85 was dropped
\* while one scored 0.851 entered executeFlashLoan.
C9_Witness ==
    \E h \in Hashes, g \in Hashes :
        /\ pc[h] = "done"
        /\ opp[h].isProfitable
        /\ opp[h].aiScore = 850
        /\ pc[g] = "populateTransaction"
        /\ opp[g].aiScore = 851

\* C10: the loan requested is min(estimatedProfit * 10, cap): greater than
\* 0 and never above the cap of 100000 ether; a profit of 0.5 ether gives
\* 5 ether, a profit of 20000 ether gives exactly 100000 ether.
C10_LoanSizing ==
    /\ \A h \in Hashes :
         pc[h] = "populateTransaction"
             => /\ loanAmount[h] =
                      Min(opp[h].estimatedProfit * 10, parseEther(100000))
                /\ loanAmount[h] > 0
                /\ loanAmount[h] <= parseEther(100000)
    /\ LoanAmount(parseEther(1) \div 2) = parseEther(5)
    /\ LoanAmount(parseEther(20000)) = parseEther(100000)

\* C10 witness: one request is capped while another is not.
C10_Witness ==
    \E h \in Hashes, g \in Hashes :
        /\ pc[h] = "populateTransaction"
        /\ opp[h].estimatedProfit * 10 > parseEther(100000)
        /\ loanAmount[h] = parseEther(100000)
        /\ pc[g] = "populateTransaction"
        /\ opp[g].estimatedProfit * 10 < parseEther(100000)
        /\ loanAmount[g] = opp[g].estimatedProfit * 10

\* C11: when the chain query of periodicResync returns, a count lower than
\* or equal to the nonce tracked at that moment leaves the tracked nonce
\* unchanged, and a higher count sets the tracked nonce to exactly that count.
C11_ResyncRaisesOnly ==
    [][ (resyncInFlight' = resyncInFlight - 1 /\ mainPc' = "monitoring")
          => /\ chainCount <= nonce => nonce' = nonce
             /\ chainCount > nonce => nonce' = chainCount
      ]_vars

\* C11 witness: a resync found the chain count above the tracked nonce and
\* raised the tracked nonce to exactly that count.
C11_Witness ==
    /\ lastResync = "raised"
    /\ nonce = chainCount
    /\ resyncRaised > 0
    /\ nonce = initialNonce + resyncRaised

\* C12: a failed or malformed reserve query (reserves that make the price
\* computation fail included) never surfaces from analyzeOpportunity: the
\* process is never brought down by an error of the price check.
C12_PriceCheckFailureNotSurfaced == fatal # "analyzeOpportunity"

\* C13: a failure of getTransaction for a pending hash is recovered locally:
\* it never surfaces and never terminates the process.
C13_GetTransactionFailureRecovered == fatal # "getTransaction"

\* C14: handlers and resync ticks exist only while the relay session is
\* created and the tracked nonce is set from the chain's transaction count;
\* after a startup failure (RPC check, relay session creation, nonce fetch)
\* the process has exited and no pending hash was ever processed.
C14_MonitoringOnlyAfterBaseline ==
    /\ ( \/ mainPc = "monitoring"
         \/ \E h \in Hashes : pc[h] # "idle"
         \/ healthCheckCount > 0
         \/ resyncInFlight > 0
         \/ wssErrorLogged )
         => /\ flashbotsProvider
            /\ nonce # undefined
            /\ initialNonce # undefined
            /\ nonce >= initialNonce
    /\ ( mainPc \in { "apiServer.start", "initialize.getBlockNumber",
                      "initialize.create", "initialize.getTransactionCount",
                      "startMonitoring" }
         \/ fatal = "startup" )
         => /\ \A h \in Hashes : pc[h] = "idle"
            /\ healthCheckCount = 0
            /\ resyncInFlight = 0
            /\ sendCalls = EmptyBag
    /\ (~flashbotsProvider \/ nonce = undefined)
         => mainPc \in { "apiServer.start", "initialize.getBlockNumber",
                         "initialize.create",
                         "initialize.getTransactionCount", "exited" }

\* C14 witness: the relay session was created, the nonce fetch failed, the
\* process exited without a baseline and no hash was processed.
C14_Witness ==
    /\ mainPc = "exited"
    /\ fatal = "startup"
    /\ flashbotsProvider
    /\ nonce = undefined
    /\ \A h \in Hashes : pc[h] = "idle"

\* C15: an exception raised in a handler (sendBundle, simulate, signBundle,
\* getBlockNumber, ... throwing) terminates the process: the step that
\* raises it ends every handler without a nonce change or a sendBundle
\* call, and afterwards no bundle is built, signed, simulated or submitted
\* and the tracked nonce is not written any more.
C15_ExceptionTerminates ==
    [][ /\ (fatal = "none" /\ fatal' # "none")
             => /\ mainPc' = "exited"
                /\ \A h \in Hashes : pc'[h] \in { "idle", "done", "dead" }
                /\ resyncInFlight' = 0
                /\ nonce' = nonce
                /\ sendCalls' = sendCalls
                /\ sendResult' = sendResult
        /\ fatal # "none"
             => /\ mainPc' = "exited"
                /\ fatal' = fatal
                /\ nonce' = nonce
                /\ pc' = pc
                /\ bundleRequest' = bundleRequest
                /\ signedTransactions' = signedTransactions
                /\ simulationResult' = simulationResult
                /\ sendResult' = sendResult
                /\ sendCalls' = sendCalls
                /\ resyncInFlight' = resyncInFlight
      ]_vars

\* C15 witness: sendBundle threw in one handler while another handler was
\* running; the process exited and both handlers are dead.
C15_Witness ==
    /\ fatal = "sendBundle"
    /\ mainPc = "exited"
    /\ \E h \in Hashes, g \in Hashes :
         h # g /\ pc[h] = "dead" /\ pc[g] = "dead"

\* C16: a pending hash is evaluated once: its handler only moves forward
\* through its awaits and never restarts after it returned, the result of
\* its one simulate and of its one sendBundle is never replaced, and the
\* relay has received exactly one sendBundle call per clean simulation.
C16_OneShotPerHash ==
    [][ /\ \A h \in Hashes :
             /\ pc'[h] # pc[h] => Rank(pc'[h]) > Rank(pc[h])
             /\ pc[h] = "done" => pc'[h] \in { "done", "dead" }
             /\ simulationResult[h] # "none"
                  => simulationResult'[h] = simulationResult[h]
             /\ sendResult[h] # "none" => sendResult'[h] = sendResult[h]
             /\ simulationResult'[h] # simulationResult[h]
                  => pc[h] = "simulate"
             /\ sendResult'[h] # sendResult[h] => pc[h] = "sendBundle"
        /\ BagCardinality(sendCalls') =
              Cardinality({ h \in Hashes : simulationResult'[h] = "ok" })
        /\ BagCardinality(sendCalls') <= BagCardinality(sendCalls) + 1
      ]_vars

\* C16 witness: one hash was dropped by the confidence gate, another was
\* submitted; both handlers returned and the relay saw one sendBundle call.
C16_Witness ==
    /\ Running
    /\ BagCardinality(sendCalls) = 1
    /\ \E h \in Hashes, g \in Hashes :
         /\ pc[h] = "done"
         /\ opp[h].isProfitable
         /\ ~PassesAIFilter(opp[h].aiScore)
         /\ pc[g] = "done"
         /\ sendResult[g] # "none"

\* C17: a fetched transaction that is absent or has no payload data is
\* discarded: analyzeOpportunity is invoked only with a transaction that
\* carries payload data, and the discarding step builds, simulates and
\* submits nothing and leaves the tracked nonce unchanged.
C17_NoPayloadDiscarded ==
    [][ \A h \in Hashes :
          /\ (pc[h] = "getTransaction" /\ pc'[h] = "getReserves")
               => tx'[h] = "0xpayload"
          /\ (pc[h] = "getTransaction" /\ pc'[h] = "done")
               => /\ nonce' = nonce
                  /\ opp'[h] = NoOpportunity
                  /\ bundleRequest' = bundleRequest
                  /\ signedTransactions' = signedTransactions
                  /\ simulationResult' = simulationResult
                  /\ sendResult' = sendResult
                  /\ sendCalls' = sendCalls
      ]_vars

\* C18: an error event of the subscription transport is only logged: the
\* step leaves the tracked nonce, every handler and every pending resync as
\* they are, and the monitor is still running after it.
C18_TransportErrorOnlyLogged ==
    [][ wssErrorLogged' # wssErrorLogged
          => /\ wssErrorLogged'
             /\ mainPc = "monitoring"
             /\ mainPc' = "monitoring"
             /\ fatal' = "none"
             /\ nonce' = nonce
             /\ handlerVars' = handlerVars
             /\ healthCheckCount' = healthCheckCount
             /\ resyncInFlight' = resyncInFlight
             /\ lastResync' = lastResync
      ]_vars

\* C18 witness: a transport error was logged while a handler was awaiting
\* the relay, the monitor runs, and a resync tick has been served.
C18_Witness ==
    /\ wssErrorLogged
    /\ Running
    /\ \E h \in Hashes : pc[h] = "sendBundle"
    /\ lastResync # "none"

\* C19: every bundle given to signBundle holds exactly one transaction, with
\* gas limit 3,000,000 and with the nonce the tracker holds at the moment
\* signBundle is called; the signed bundle is that bundle.
C19_BundleShape ==
    [][ \A h \in Hashes :
          /\ (pc[h] = "populateTransaction" /\ pc'[h] = "signBundle")
               => /\ Len(bundleRequest'[h]) = 1
                  /\ bundleRequest'[h][1].nonce = nonce
                  /\ bundleRequest'[h][1].gasLimit = 3000000
          /\ (pc[h] = "signBundle" /\ pc'[h] = "getBlockNumber")
               => signedTransactions'[h] = bundleRequest[h]
          /\ pc'[h] \in InFlightPcs \ { "signBundle" }
               => /\ Len(signedTransactions'[h]) = 1
                  /\ signedTransactions'[h][1].gasLimit = 3000000
          /\ bundleRequest'[h] # bundleRequest[h]
               => pc[h] \in { "populateTransaction", "signBundle" }
                     \/ mainPc' = "exited"
      ]_vars

\* C19 witness: signBundle was called with the current nonce after the
\* tracked nonce had moved past the value initialize read.
C19_Witness ==
    \E h \in Hashes :
        /\ pc[h] = "signBundle"
        /\ Len(bundleRequest[h]) = 1
        /\ bundleRequest[h][1].nonce = nonce
        /\ nonce > initialNonce

\* C20: the target block of a bundle is the block number getBlockNumber
\* returns after signing, plus 1; simulate and sendBundle are called with
\* the same signed bundle and that same target block, and the bundle is not
\* simulated or submitted again for another block.
C20_OneTargetBlock ==
    [][ \A h \in Hashes :
          /\ (pc[h] = "getBlockNumber" /\ pc'[h] = "simulate")
               => /\ targetBlock'[h] = blockNumber + 1
                  /\ signedTransactions'[h] = signedTransactions[h]
          /\ (pc[h] = "simulate" /\ pc'[h] = "sendBundle")
               => /\ targetBlock'[h] = targetBlock[h]
                  /\ signedTransactions'[h] = signedTransactions[h]
          /\ (pc[h] \in { "simulate", "sendBundle" }
                 /\ pc'[h] \in { "simulate", "sendBundle" })
               => /\ targetBlock'[h] = targetBlock[h]
                  /\ signedTransactions'[h] = signedTransactions[h]
          /\ pc[h] = "simulate"
               => pc'[h] \in { "simulate", "sendBundle", "done", "dead" }
          /\ pc[h] = "sendBundle"
               => pc'[h] \in { "sendBundle", "done", "dead" }
      ]_vars

\* C20 witness: the chain moved on while simulate ran; sendBundle was
\* called with the target block fixed before simulate, which by now is the
\* chain's current block.
C20_Witness ==
    \E h \in Hashes :
        /\ pc[h] = "sendBundle"
        /\ simulationResult[h] = "ok"
        /\ targetBlock[h] = blockNumber
        /\ blockNumber > 0

\* C21: every health tick adds exactly 1 to the health counter and starts
\* one periodicResync, and nothing else does either; with ticks that keep
\* firing and chain queries that return, a chain count above the tracked
\* nonce is eventually reached by the tracked nonce, as long as the process
\* runs and the interval has a tick to come or a resync under way.
C21_TickResyncs ==
    /\ [][ /\ healthCheckCount' # healthCheckCount
                => /\ healthCheckCount' = healthCheckCount + 1
                   /\ resyncInFlight' = resyncInFlight + 1
           /\ resyncInFlight' > resyncInFlight
                => /\ resyncInFlight' = resyncInFlight + 1
                   /\ healthCheckCount' = healthCheckCount + 1
         ]_vars
    /\ \A c \in 1..MaxBlock :
         ( /\ Running
           /\ chainCount = c
           /\ nonce < c
           /\ (healthCheckCount < MaxTicks \/ resyncInFlight > 0) )
           ~> (nonce >= c \/ mainPc = "exited")

\* C21 witness: a tick was counted, the resync it started found the chain
\* count above the tracked nonce and the tracked nonce now reaches it.
C21_Witness ==
    /\ Running
    /\ healthCheckCount > 0
    /\ resyncInFlight = 0
    /\ lastResync = "raised"
    /\ chainCount > initialNonce
    /\ nonce >= chainCount

\* C22: the tracked nonce never runs ahead of what has been used: it is at
\* most the maximum of the chain's transaction count and one plus the
\* highest nonce carried by a submitted bundle, so no nonce value is
\* skipped.
C22_NonceNotAheadOfUse ==
    nonce # undefined
        => nonce <= Max(chainCount, HighestSubmittedNonce + 1)

====
